---------------------------- MODULE Spec2Model ----------------------------
(***************************************************************************)
(* A model of src/src/validate_waf.py: the WAF document validator and its  *)
(* batch runner.                                                           *)
(*                                                                         *)
(* YAML values are tagged records [t, v]:                                  *)
(*   null   [t |-> "null", v |-> 0]                                        *)
(*   str    [t |-> "str",  v |-> <<"P","R","O","D">>]  (a tuple of chars)  *)
(*   bool   [t |-> "bool", v |-> TRUE]                                     *)
(*   int    [t |-> "int",  v |-> 0]                                        *)
(*   float  [t |-> "float", v |-> 15]   (a number of tenths: 1.5)          *)
(*   list   [t |-> "list", v |-> <<value, ...>>]                           *)
(*   map    [t |-> "map",  v |-> function from key names to values,        *)
(*           keys |-> the key names in the order the file writes them]    *)
(* Key names (identifiers) are atomic strings; scalar text is a tuple of   *)
(* one-character strings so that strip() and lower() are computed.         *)
(* An ordered Python dict of rules is a sequence of [key, status] records. *)
(* A message is a record [kind, key, idx, child, value, listing].          *)
(***************************************************************************)
EXTENDS Integers, Sequences, FiniteSets, TLC

\* ------------------------------------------------------------------ values

Null == [t |-> "null", v |-> 0]
Str(s) == [t |-> "str", v |-> s]
Bool(b) == [t |-> "bool", v |-> b]
Num(n) == [t |-> "int", v |-> n]
Float(tenths) == [t |-> "float", v |-> tenths]
List(xs) == [t |-> "list", v |-> xs]
\* isinstance(value, (list, tuple, set, dict)): YAML yields lists and mappings
IsContainer(value) == value.t \in {"list", "map"}

\* dict.get(key): the value, or None when the key is absent
Get(content, key) == IF key \in DOMAIN content.v THEN content.v[key] ELSE Null

\* ------------------------------------------------------------------ text

Whitespace == {" ", "\t", "\n", "\r", "\f"}

UpperCase ==
  <<"A", "B", "C", "D", "E", "F", "G", "H", "I", "J", "K", "L", "M",
    "N", "O", "P", "Q", "R", "S", "T", "U", "V", "W", "X", "Y", "Z">>

LowerCase ==
  <<"a", "b", "c", "d", "e", "f", "g", "h", "i", "j", "k", "l", "m",
    "n", "o", "p", "q", "r", "s", "t", "u", "v", "w", "x", "y", "z">>

Digits == <<"0", "1", "2", "3", "4", "5", "6", "7", "8", "9">>

\* The characters of the model in code-point order (what sorted() compares):
\* tab, newline, form feed, return and printable ASCII but the backquote.
CharOrder ==
  <<"\t", "\n", "\f", "\r", " ", "!", "\"", "#", "$", "%", "&", "'", "(", ")", "*", "+",
    ",", "-", ".", "/">> \o Digits \o <<":", ";", "<", "=", ">", "?", "@">>
    \o UpperCase \o <<"[", "\\", "]", "^", "_">> \o LowerCase
    \o <<"{", "|", "}", "~">>

Ord(c) == CHOOSE i \in 1..Len(CharOrder) : CharOrder[i] = c

\* str.lower() on one character
LowerChar(c) ==
  IF \E i \in 1..Len(UpperCase) : UpperCase[i] = c
  THEN LowerCase[CHOOSE i \in 1..Len(UpperCase) : UpperCase[i] = c]
  ELSE c

\* str.lower()
Lower(s) == [i \in 1..Len(s) |-> LowerChar(s[i])]

\* str.strip(): drop leading and trailing whitespace
Strip(s) ==
  LET keep == {i \in 1..Len(s) : s[i] \notin Whitespace}
  IN IF keep = {} THEN <<>>
     ELSE SubSeq(s, CHOOSE i \in keep : \A j \in keep : i <= j,
                    CHOOSE i \in keep : \A j \in keep : i >= j)

\* str(n) for a non-negative int
RECURSIVE NatToStr(_)
NatToStr(n) ==
  IF n < 10 THEN <<Digits[n + 1]>>
  ELSE NatToStr(n \div 10) \o <<Digits[(n % 10) + 1]>>

\* str(n) for an int
IntToStr(n) == IF n < 0 THEN <<"-">> \o NatToStr(-n) ELSE NatToStr(n)

\* Python's str < str: lexicographic by code point
RECURSIVE StrLess(_, _)
StrLess(a, b) ==
  IF b = <<>> THEN FALSE
  ELSE IF a = <<>> THEN TRUE
  ELSE IF Head(a) = Head(b) THEN StrLess(Tail(a), Tail(b))
  ELSE Ord(Head(a)) < Ord(Head(b))

\* sorted(set of str)
RECURSIVE Sorted(_)
Sorted(S) ==
  IF S = {} THEN <<>>
  ELSE LET m == CHOOSE x \in S : \A y \in S : x = y \/ StrLess(x, y)
       IN <<m>> \o Sorted(S \ {m})

\* The text of a key name, character by character.
KeyText(key) == [i \in 1..Len(key) |-> SubSeq(key, i, i)]

\* the keys of a mapping in sorted order
KeysInOrder(m) ==
  LET texts == Sorted({KeyText(k) : k \in DOMAIN m})
  IN [i \in 1..Len(texts) |-> CHOOSE k \in DOMAIN m : KeyText(k) = texts[i]]

\* a YAML mapping written with its keys in the order given (a dict keeps the
\* order of insertion)
OrderedMap(keys, m) == [t |-> "map", v |-> m, keys |-> keys]
\* a YAML mapping written with its keys in sorted order
Map(m) == OrderedMap(KeysInOrder(m), m)
EmptyMap == Map([k \in {} |-> Null])

\* str(value) for a bool
BoolToStr(b) == IF b THEN <<"T", "r", "u", "e">> ELSE <<"F", "a", "l", "s", "e">>

\* str(value) for a float of the model: the tenths written as a decimal
FloatToStr(tenths) ==
  LET size == IF tenths < 0 THEN -tenths ELSE tenths
  IN (IF tenths < 0 THEN <<"-">> ELSE <<>>)
       \o NatToStr(size \div 10) \o <<".", Digits[(size % 10) + 1]>>

\* repr(c) inside a string literal quoted with quote
ReprChar(c, quote) ==
  IF c = "\\" THEN <<"\\", "\\">>
  ELSE IF c = quote THEN <<"\\", quote>>
  ELSE IF c = "\t" THEN <<"\\", "t">>
  ELSE IF c = "\n" THEN <<"\\", "n">>
  ELSE IF c = "\r" THEN <<"\\", "r">>
  ELSE IF c = "\f" THEN <<"\\", "x", "0", "c">>
  ELSE <<c>>

RECURSIVE ReprChars(_, _, _)
ReprChars(text, quote, i) ==
  IF i > Len(text) THEN <<>>
  ELSE ReprChar(text[i], quote) \o ReprChars(text, quote, i + 1)

\* repr(text) for a str: single quotes, unless the text holds one and no double
\* quote
ReprStr(text) ==
  LET chars == {text[i] : i \in 1..Len(text)}
      quote == IF "'" \in chars /\ "\"" \notin chars THEN "\"" ELSE "'"
  IN <<quote>> \o ReprChars(text, quote, 1) \o <<quote>>

\* repr(value): what str() of a list or mapping writes for each of its parts; a
\* mapping's items come in the order of its keys in the file.
RECURSIVE Repr(_)
RECURSIVE ReprList(_, _)
RECURSIVE ReprItems(_, _, _)
ReprList(values, i) ==
  IF i > Len(values) THEN <<>>
  ELSE Repr(values[i])
         \o (IF i < Len(values) THEN <<",", " ">> ELSE <<>>)
         \o ReprList(values, i + 1)
ReprItems(mapping, keys, i) ==
  IF i > Len(keys) THEN <<>>
  ELSE ReprStr(KeyText(keys[i])) \o <<":", " ">> \o Repr(mapping[keys[i]])
            \o (IF i < Len(keys) THEN <<",", " ">> ELSE <<>>)
            \o ReprItems(mapping, keys, i + 1)
Repr(value) ==
  IF value.t = "str" THEN ReprStr(value.v)
  ELSE IF value.t = "bool" THEN BoolToStr(value.v)
  ELSE IF value.t = "int" THEN IntToStr(value.v)
  ELSE IF value.t = "float" THEN FloatToStr(value.v)
  ELSE IF value.t = "null" THEN <<"N", "o", "n", "e">>
  ELSE IF value.t = "list" THEN <<"[">> \o ReprList(value.v, 1) \o <<"]">>
  ELSE <<"{">>
         \o ReprItems(value.v, value.keys, 1)
         \o <<"}">>

\* --------------------------------------------------------------- messages

Msg(kind, key, idx, child, value, listing) ==
  [kind |-> kind, key |-> key, idx |-> idx, child |-> child,
   value |-> value, listing |-> listing]

\* f"Missing or empty mandatory key '{key}'"
MissingKey(key) == Msg("missing_mandatory", key, -1, "", Null, <<>>)
\* f"Optional key '{key}' is missing or empty"
OptionalMissing(key) == Msg("optional_missing", key, -1, "", Null, <<>>)
\* "Document root must be a mapping"
RootNotMapping == Msg("root_not_mapping", "", -1, "", Null, <<>>)
\* f"Key '{parent}' must not be empty"
MustNotBeEmpty(parent) == Msg("must_not_be_empty", parent, -1, "", Null, <<>>)
\* f"Key '{parent}' must contain at least one entry"
AtLeastOneEntry(parent) == Msg("at_least_one_entry", parent, -1, "", Null, <<>>)
\* f"Entry {idx} under '{parent}' must be an object"
EntryNotObject(parent, idx) == Msg("entry_not_object", parent, idx, "", Null, <<>>)
\* f"Entry {idx} under '{parent}' is missing mandatory key '{nested_key}'"
EntryMissingKey(parent, idx, nested_key) ==
  Msg("entry_missing_key", parent, idx, nested_key, Null, <<>>)
\* f"Key '{parent}' is missing nested key '{nested_key}'"
MissingNestedKey(parent, nested_key) ==
  Msg("missing_nested_key", parent, -1, nested_key, Null, <<>>)
\* f"Key '{parent}' must be a list or mapping"
MustBeListOrMapping(parent) == Msg("must_be_list_or_mapping", parent, -1, "", Null, <<>>)
\* f"Key '{field_name}' must be a list"
MustBeList(field_name) == Msg("must_be_list", field_name, -1, "", Null, <<>>)
\* f"'{field_name}' entry {idx} must be a non-empty string"
EntryNotString(field_name, idx) == Msg("entry_not_string", field_name, idx, "", Null, <<>>)
\* f"'{field_name}' entry '{normalized}' (index {idx}) is not defined in {source}"
EntryNotDefined(field_name, idx, normalized) ==
  Msg("entry_not_defined", field_name, idx, "", Str(normalized), <<>>)
\* f"Value for '{key}' must be a scalar"
MustBeScalar(key) == Msg("must_be_scalar", key, -1, "", Null, <<>>)
\* f"Value '{value}' for '{key}' must be one of: {pretty}"
MustBeOneOf(key, value, pretty) == Msg("must_be_one_of", key, -1, "", value, pretty)
\* f"[FAIL] {file_path}: unable to load YAML ({exc})"
UnableToLoad == Msg("unable_to_load", "", -1, "", Null, <<>>)

\* ------------------------------------------------------------- validator

\* OPTIONAL_WARN_KEYS
OPTIONAL_WARN_KEYS == {"labels", "specs", "epic_resources"}

\* mutant: truthiness instead of the typed test, so 0 and False count as empty
has_value_truthy(value) ==
  IF value.t = "null" THEN FALSE
  ELSE IF value.t = "str" THEN Strip(value.v) # <<>>
  ELSE IF value.t = "list" THEN Len(value.v) > 0
  ELSE IF value.t = "map" THEN DOMAIN value.v # {}
  ELSE IF value.t = "int" THEN value.v # 0
  ELSE value.v

\* has_value(value)
has_value(value) ==
  IF value.t = "null" THEN FALSE
  ELSE IF value.t = "str" THEN Strip(value.v) # <<>>
  ELSE IF value.t = "list" THEN Len(value.v) > 0
  ELSE IF value.t = "map" THEN DOMAIN value.v # {}
  ELSE TRUE

\* allows_blank_value(key, value)
allows_blank_value(key, value) ==
  IF key # "end_date" THEN FALSE
  ELSE IF value.t = "null" THEN TRUE
  ELSE IF value.t = "str"
       THEN LET stripped == Lower(Strip(value.v))
            IN stripped = <<>> \/ stripped = <<"n", "u", "l", "l">>
  ELSE FALSE

\* mutant: str(value) of a bool is returned as Python writes it, not lower-cased
normalize_scalar_cased(value) ==
  IF value.t = "str" THEN Lower(Strip(value.v))
  ELSE IF value.t = "bool" THEN BoolToStr(value.v)
  ELSE IF value.t = "int" THEN IntToStr(value.v)
  ELSE IF value.t = "float" THEN FloatToStr(value.v)
  ELSE IF value.t = "null" THEN <<"n", "u", "l", "l">>
  ELSE Lower(Strip(Repr(value)))

\* normalize_scalar(value); bool is tested before int, as in the source
normalize_scalar(value) ==
  IF value.t = "str" THEN Lower(Strip(value.v))
  ELSE IF value.t = "bool" THEN Lower(BoolToStr(value.v))
  ELSE IF value.t = "int" THEN IntToStr(value.v)
  ELSE IF value.t = "float" THEN FloatToStr(value.v)
  ELSE IF value.t = "null" THEN <<"n", "u", "l", "l">>
  ELSE Lower(Strip(Repr(value)))

\* mutant: the value is compared as written, neither trimmed nor lower-cased
validate_allowed_value_raw(key, value, allowed_values) ==
  IF value.t = "null" THEN <<>>
  ELSE IF IsContainer(value) THEN <<MustBeScalar(key)>>
  ELSE IF (IF value.t = "str" THEN value.v ELSE normalize_scalar(value)) \notin allowed_values
       THEN <<MustBeOneOf(key, value, Sorted(allowed_values))>>
  ELSE <<>>

\* validate_allowed_value(key, value, allowed_values)
validate_allowed_value(key, value, allowed_values) ==
  IF value.t = "null" THEN <<>>
  ELSE IF IsContainer(value) THEN <<MustBeScalar(key)>>
  ELSE IF normalize_scalar(value) \notin allowed_values
       THEN <<MustBeOneOf(key, value, Sorted(allowed_values))>>
  ELSE <<>>

\* mutant: membership is tested on the lower-cased text
RECURSIVE StringListEntriesFolded(_, _, _, _)
StringListEntriesFolded(field_name, entries, allowed_values, i) ==
  IF i > Len(entries) THEN <<>>
  ELSE LET entry == entries[i]
           rest == StringListEntriesFolded(field_name, entries, allowed_values, i + 1)
       IN IF entry.t # "str" \/ Strip(entry.v) = <<>>
          THEN <<EntryNotString(field_name, i - 1)>> \o rest
          ELSE IF Lower(Strip(entry.v)) \notin allowed_values
               THEN <<EntryNotDefined(field_name, i - 1, Strip(entry.v))>> \o rest
               ELSE rest

\* the loop of validate_string_list over entries idx.. (0-based idx = i - 1)
RECURSIVE StringListEntries(_, _, _, _)
StringListEntries(field_name, entries, allowed_values, i) ==
  IF i > Len(entries) THEN <<>>
  ELSE LET entry == entries[i]
           rest == StringListEntries(field_name, entries, allowed_values, i + 1)
       IN IF entry.t # "str" \/ Strip(entry.v) = <<>>
          THEN <<EntryNotString(field_name, i - 1)>> \o rest
          ELSE IF Strip(entry.v) \notin allowed_values
               THEN <<EntryNotDefined(field_name, i - 1, Strip(entry.v))>> \o rest
               ELSE rest

\* validate_string_list(field_name, value, allowed_values, source_description)
validate_string_list(field_name, value, allowed_values) ==
  IF value.t = "null" THEN <<MissingKey(field_name)>>
  ELSE IF value.t # "list" THEN <<MustBeList(field_name)>>
  ELSE StringListEntries(field_name, value.v, allowed_values, 1)

\* mutant: the status of the child key is not looked at
RECURSIVE NestedEntryRulesAnyStatus(_, _, _, _, _)
NestedEntryRulesAnyStatus(parent, idx, item, rules, j) ==
  IF j > Len(rules) THEN <<>>
  ELSE LET rest == NestedEntryRulesAnyStatus(parent, idx, item, rules, j + 1)
       IN IF ~has_value(Get(item, rules[j].key))
          THEN <<EntryMissingKey(parent, idx, rules[j].key)>> \o rest
          ELSE rest

\* the inner loops of validate_nested over rules.items(), from rule j on
RECURSIVE NestedEntryRules(_, _, _, _, _)
NestedEntryRules(parent, idx, item, rules, j) ==
  IF j > Len(rules) THEN <<>>
  ELSE LET rest == NestedEntryRules(parent, idx, item, rules, j + 1)
       IN IF rules[j].status # "mandatory" THEN rest
          ELSE IF ~has_value(Get(item, rules[j].key))
               THEN <<EntryMissingKey(parent, idx, rules[j].key)>> \o rest
               ELSE rest

RECURSIVE NestedMappingRules(_, _, _, _)
NestedMappingRules(parent, value, rules, j) ==
  IF j > Len(rules) THEN <<>>
  ELSE LET rest == NestedMappingRules(parent, value, rules, j + 1)
       IN IF rules[j].status # "mandatory" THEN rest
          ELSE IF ~has_value(Get(value, rules[j].key))
               THEN <<MissingNestedKey(parent, rules[j].key)>> \o rest
               ELSE rest

\* the loop of validate_nested over enumerate(value), from entry i on
RECURSIVE NestedEntries(_, _, _, _)
NestedEntries(parent, entries, rules, i) ==
  IF i > Len(entries) THEN <<>>
  ELSE LET rest == NestedEntries(parent, entries, rules, i + 1)
       IN IF entries[i].t # "map"
          THEN <<EntryNotObject(parent, i - 1)>> \o rest
          ELSE NestedEntryRules(parent, i - 1, entries[i], rules, 1) \o rest

\* validate_nested(parent, value, rules)
validate_nested(parent, value, rules) ==
  IF value.t = "null" THEN <<MustNotBeEmpty(parent)>>
  ELSE IF value.t = "list"
       THEN (IF Len(value.v) = 0 THEN <<AtLeastOneEntry(parent)>>
             ELSE NestedEntries(parent, value.v, rules, 1))
  ELSE IF value.t = "map" THEN NestedMappingRules(parent, value, rules, 1)
  ELSE <<MustBeListOrMapping(parent)>>

\* mutant: the absent key is not told apart from a null one
MandatoryMissingAbsentAsNull(key, content) ==
  IF key \in OPTIONAL_WARN_KEYS
  THEN [errors |-> <<>>, warnings |-> <<OptionalMissing(key)>>]
  ELSE IF ~allows_blank_value(key, Get(content, key))
       THEN [errors |-> <<MissingKey(key)>>, warnings |-> <<>>]
       ELSE [errors |-> <<>>, warnings |-> <<>>]

\* mutant: the warning branch falls through to the error
MandatoryMissingNoContinue(key, content) ==
  IF key \in OPTIONAL_WARN_KEYS
  THEN [errors |-> <<MissingKey(key)>>, warnings |-> <<OptionalMissing(key)>>]
  ELSE IF key \notin DOMAIN content.v \/ ~allows_blank_value(key, Get(content, key))
       THEN [errors |-> <<MissingKey(key)>>, warnings |-> <<>>]
       ELSE [errors |-> <<>>, warnings |-> <<>>]

\* the mandatory branch of validate_document's loop body (lines 235-242):
\* what one absent-or-empty mandatory key adds
MandatoryMissing(key, content) ==
  IF key \in OPTIONAL_WARN_KEYS
  THEN [errors |-> <<>>, warnings |-> <<OptionalMissing(key)>>]
  ELSE IF key \notin DOMAIN content.v \/ ~allows_blank_value(key, Get(content, key))
       THEN [errors |-> <<MissingKey(key)>>, warnings |-> <<>>]
       ELSE [errors |-> <<>>, warnings |-> <<>>]

\* mutant: the nested check also runs after the mandatory branch
RuleStepNestedAlways(key, status, content, nested_rules) ==
  LET value == Get(content, key)
      value_present == key \in DOMAIN content.v /\ has_value(value)
      first == IF status = "mandatory" /\ ~value_present
               THEN MandatoryMissing(key, content)
               ELSE [errors |-> <<>>, warnings |-> <<>>]
  IN IF key \in DOMAIN content.v /\ key \in DOMAIN nested_rules
     THEN [errors |-> first.errors
                        \o validate_nested(key, content.v[key], nested_rules[key]),
           warnings |-> first.warnings]
     ELSE first

\* one iteration of validate_document's loop: what rule (key, status) adds
RuleStep(key, status, content, nested_rules) ==
  LET value == Get(content, key)
      value_present == key \in DOMAIN content.v /\ has_value(value)
  IN IF status = "mandatory" /\ ~value_present
     THEN MandatoryMissing(key, content)
     ELSE IF key \in DOMAIN content.v /\ key \in DOMAIN nested_rules
          THEN [errors |-> validate_nested(key, content.v[key], nested_rules[key]),
                warnings |-> <<>>]
          ELSE [errors |-> <<>>, warnings |-> <<>>]

\* validate_document's loop over top_level_rules.items(), from rule i on
RECURSIVE DocumentRules(_, _, _, _)
DocumentRules(content, top_level_rules, nested_rules, i) ==
  IF i > Len(top_level_rules) THEN [errors |-> <<>>, warnings |-> <<>>]
  ELSE LET step == RuleStep(top_level_rules[i].key, top_level_rules[i].status,
                            content, nested_rules)
           rest == DocumentRules(content, top_level_rules, nested_rules, i + 1)
       IN [errors |-> step.errors \o rest.errors,
           warnings |-> step.warnings \o rest.warnings]

\* validate_document(content, top_level_rules, nested_rules)
validate_document(content, top_level_rules, nested_rules) ==
  IF content.t # "map" THEN [errors |-> <<RootNotMapping>>, warnings |-> <<>>]
  ELSE DocumentRules(content, top_level_rules, nested_rules, 1)

\* ------------------------------------------------------- template parser

\* [A-Za-z0-9_]
IdentChars ==
  {UpperCase[i] : i \in 1..Len(UpperCase)} \cup {LowerCase[i] : i \in 1..Len(LowerCase)}
    \cup {Digits[i] : i \in 1..Len(Digits)} \cup {"_"}

mandatory == <<"m", "a", "n", "d", "a", "t", "o", "r", "y">>
optional == <<"o", "p", "t", "i", "o", "n", "a", "l">>

NoMatch == [matched |-> FALSE, key |-> <<>>, status |-> ""]

\* STATUS_PATTERN.match(text): ^([A-Za-z0-9_]+)\s*:\s*(mandatory|optional)\s*$,
\* ignoring case; group 1 is the key, group 2 lower-cased the status. The colon
\* matched is the first of the text, as neither [A-Za-z0-9_] nor \s takes one.
STATUS_PATTERN(text) ==
  LET colons == {i \in 1..Len(text) : text[i] = ":"}
  IN IF colons = {} THEN NoMatch
     ELSE LET colon == CHOOSE i \in colons : \A j \in colons : i <= j
              before == SubSeq(text, 1, colon - 1)
              after == SubSeq(text, colon + 1, Len(text))
              idents == {n \in 0..Len(before) : \A k \in 1..n : before[k] \in IdentChars}
              n == CHOOSE i \in idents : \A j \in idents : i >= j
              word == Lower(Strip(after))
          IN IF /\ n >= 1
                /\ \A k \in (n + 1)..Len(before) : before[k] \in Whitespace
                /\ word \in {mandatory, optional}
             THEN [matched |-> TRUE, key |-> SubSeq(before, 1, n),
                   status |-> IF word = mandatory THEN "mandatory" ELSE "optional"]
             ELSE NoMatch

\* len(raw_line) - len(raw_line.lstrip())
Indent(raw_line) ==
  LET blank == {n \in 0..Len(raw_line) : \A k \in 1..n : raw_line[k] \in Whitespace}
  IN CHOOSE i \in blank : \A j \in blank : i >= j

\* text.startswith(prefix)
StartsWith(text, prefix) ==
  Len(text) >= Len(prefix) /\ SubSeq(text, 1, Len(prefix)) = prefix

\* rules[key] = status on an insertion-ordered dict
SetRule(rules, key, status) ==
  IF \E i \in 1..Len(rules) : rules[i].key = key
  THEN [i \in 1..Len(rules) |->
          IF rules[i].key = key THEN [key |-> key, status |-> status] ELSE rules[i]]
  ELSE Append(rules, [key |-> key, status |-> status])

\* children.setdefault(parent, {})[key] = status
SetNested(children, parent, key, status) ==
  [p \in DOMAIN children \cup {parent} |->
     IF p = parent
     THEN SetRule(IF parent \in DOMAIN children THEN children[parent] ELSE <<>>,
                  key, status)
     ELSE children[p]]

\* the absent key, as current_parent and current_list_parent hold None: no key
\* is the empty text, and "x or y" treats both alike
None == <<>>

\* mutant: a top-level line leaves current_list_parent as it was
ParseLineKeepsListParent(state, raw_line) ==
  IF Strip(raw_line) = <<>> THEN state
  ELSE LET indent == Indent(raw_line)
           stripped == Strip(raw_line)
           match == STATUS_PATTERN(stripped)
       IN IF indent = 0 /\ match.matched
          THEN [state EXCEPT !.top_level = SetRule(state.top_level, match.key, match.status),
                             !.current_parent = match.key]
          ELSE LET parent == IF state.current_list_parent # None
                             THEN state.current_list_parent
                             ELSE state.current_parent
               IN IF parent = None THEN state
                  ELSE IF StartsWith(stripped, <<"-", " ">>)
                       THEN LET inner == Strip(SubSeq(stripped, 3, Len(stripped)))
                                inner_match == STATUS_PATTERN(inner)
                            IN IF inner_match.matched
                               THEN [state EXCEPT
                                       !.nested = SetNested(state.nested, parent,
                                                            inner_match.key,
                                                            inner_match.status),
                                       !.current_list_parent = parent]
                               ELSE state
                  ELSE IF match.matched
                       THEN [state EXCEPT
                               !.nested = SetNested(state.nested, parent, match.key,
                                                    match.status)]
                       ELSE state

\* mutant: a matching line defines a top-level key whatever its indentation
ParseLineAnyIndent(state, raw_line) ==
  IF Strip(raw_line) = <<>> THEN state
  ELSE LET indent == Indent(raw_line)
           stripped == Strip(raw_line)
           match == STATUS_PATTERN(stripped)
       IN IF indent >= 0 /\ match.matched
          THEN [state EXCEPT !.top_level = SetRule(state.top_level, match.key, match.status),
                             !.current_parent = match.key,
                             !.current_list_parent = None]
          ELSE LET parent == IF state.current_list_parent # None
                             THEN state.current_list_parent
                             ELSE state.current_parent
               IN IF parent = None THEN state
                  ELSE IF StartsWith(stripped, <<"-", " ">>)
                       THEN LET inner == Strip(SubSeq(stripped, 3, Len(stripped)))
                                inner_match == STATUS_PATTERN(inner)
                            IN IF inner_match.matched
                               THEN [state EXCEPT
                                       !.nested = SetNested(state.nested, parent,
                                                            inner_match.key,
                                                            inner_match.status),
                                       !.current_list_parent = parent]
                               ELSE state
                  ELSE IF match.matched
                       THEN [state EXCEPT
                               !.nested = SetNested(state.nested, parent, match.key,
                                                    match.status)]
                       ELSE state

\* one iteration of parse_template's loop (lines 35-63) on the locals
\* [top_level, nested, current_parent, current_list_parent]
ParseLine(state, raw_line) ==
  IF Strip(raw_line) = <<>> THEN state
  ELSE LET indent == Indent(raw_line)
           stripped == Strip(raw_line)
           match == STATUS_PATTERN(stripped)
       IN IF indent = 0 /\ match.matched
          THEN [state EXCEPT !.top_level = SetRule(state.top_level, match.key, match.status),
                             !.current_parent = match.key,
                             !.current_list_parent = None]
          ELSE LET parent == IF state.current_list_parent # None
                             THEN state.current_list_parent
                             ELSE state.current_parent
               IN IF parent = None THEN state
                  ELSE IF StartsWith(stripped, <<"-", " ">>)
                       THEN LET inner == Strip(SubSeq(stripped, 3, Len(stripped)))
                                inner_match == STATUS_PATTERN(inner)
                            IN IF inner_match.matched
                               THEN [state EXCEPT
                                       !.nested = SetNested(state.nested, parent,
                                                            inner_match.key,
                                                            inner_match.status),
                                       !.current_list_parent = parent]
                               ELSE state
                  ELSE IF match.matched
                       THEN [state EXCEPT
                               !.nested = SetNested(state.nested, parent, match.key,
                                                    match.status)]
                       ELSE state

\* ---------------------------------------------------------------- loaders

\* A file that does not exist (Path.is_file() is false)
Missing == [t |-> "missing", v |-> 0]

Loaded(value) == [raised |-> "none", value |-> value]
Raise(exception) == [raised |-> exception, value |-> <<>>]

\* parse_template's file check (lines 26-27) and read (line 34), which raises
\* UnicodeDecodeError on bytes that are not UTF-8; a template that is read is
\* given by the rule tables its lines produce
parse_template(template) ==
  IF template.t = "missing" THEN Raise("FileNotFoundError")
  ELSE IF template.t = "decode_error" THEN Raise("UnicodeDecodeError")
  ELSE Loaded(template.v)

\* load_yaml(path) on a file that exists: yaml.safe_load raises yaml.YAMLError on
\* text that is not YAML, and reading bytes that are not UTF-8 raises
\* UnicodeDecodeError
load_yaml(data) ==
  IF data.t = "yaml_error" THEN Raise("YAMLError")
  ELSE IF data.t = "decode_error" THEN Raise("UnicodeDecodeError")
  ELSE Loaded(data)

\* {entry.strip() for entry in raw_labels if isinstance(entry, str) and entry.strip()}
StrippedStrings(entries) ==
  {Strip(entries[i].v) : i \in {j \in 1..Len(entries) :
                                 entries[j].t = "str" /\ Strip(entries[j].v) # <<>>}}

\* mutant: the set of labels is returned even when it is empty
load_allowed_labels_unchecked(data) ==
  IF data.t = "missing" THEN Raise("FileNotFoundError")
  ELSE IF load_yaml(data).raised # "none" THEN load_yaml(data)
  ELSE LET raw_labels == IF data.t = "map" THEN Get(data, "labels") ELSE data
       IN IF raw_labels.t # "list" THEN Raise("ValueError")
          ELSE Loaded(StrippedStrings(raw_labels.v))

\* load_allowed_labels(labels_path)
load_allowed_labels(data) ==
  IF data.t = "missing" THEN Raise("FileNotFoundError")
  ELSE IF load_yaml(data).raised # "none" THEN load_yaml(data)
  ELSE LET raw_labels == IF data.t = "map" THEN Get(data, "labels") ELSE data
       IN IF raw_labels.t # "list" THEN Raise("ValueError")
          ELSE IF StrippedStrings(raw_labels.v) = {} THEN Raise("ValueError")
          ELSE Loaded(StrippedStrings(raw_labels.v))

\* _collect(node) of load_epic_resources: every string of the tree, mapping keys
\* included, stripped, blanks dropped
RECURSIVE Collect(_)
Collect(node) ==
  IF node.t = "str" THEN (IF Strip(node.v) = <<>> THEN {} ELSE {Strip(node.v)})
  ELSE IF node.t = "map"
       THEN UNION {Collect(Str(KeyText(k))) \cup Collect(node.v[k]) : k \in DOMAIN node.v}
  ELSE IF node.t = "list" THEN UNION {Collect(node.v[i]) : i \in 1..Len(node.v)}
  ELSE {}

\* load_epic_resources(resources_path)
load_epic_resources(data) ==
  IF data.t = "missing" THEN Raise("FileNotFoundError")
  ELSE IF load_yaml(data).raised # "none" THEN load_yaml(data)
  ELSE IF data.t = "null" THEN Raise("ValueError")
  ELSE IF Collect(data) = {} THEN Raise("ValueError")
  ELSE Loaded(Collect(data))

\* {normalize_scalar(entry) for entry in values if has_value(entry) or entry is None}
NormalizedEntries(values) ==
  {normalize_scalar(values[i]) : i \in {j \in 1..Len(values) :
                                         has_value(values[j]) \/ values[j].t = "null"}}

\* main's required_keys argument, which is also the tuple its loop checks
REQUIRED_KEYS == <<"impact", "active", "kql_check">>

\* load_validations(validations_path, required_keys)
load_validations(data, required_keys) ==
  IF data.t = "missing" THEN Raise("FileNotFoundError")
  ELSE IF load_yaml(data).raised # "none" THEN load_yaml(data)
  ELSE IF data.t # "map" THEN Raise("ValueError")
  ELSE IF \E k \in DOMAIN data.v : data.v[k].t # "list" \/ Len(data.v[k].v) = 0
       THEN Raise("ValueError")
  ELSE IF \E k \in DOMAIN data.v : NormalizedEntries(data.v[k].v) = {}
       THEN Raise("ValueError")
  ELSE IF \E i \in 1..Len(required_keys) : required_keys[i] \notin DOMAIN data.v
       THEN Raise("ValueError")
  ELSE Loaded([k \in DOMAIN data.v |-> NormalizedEntries(data.v[k].v)])

\* ------------------------------------------------------------ batch runner

\* iter_yaml_files(waf_dir): the names found, sorted
RECURSIVE iter_yaml_files(_)
iter_yaml_files(names) ==
  IF names = {} THEN <<>>
  ELSE LET first == CHOOSE n \in names : \A m \in names : n <= m
       IN <<first>> \o iter_yaml_files(names \ {first})

\* main lines 358-362 and 374-383: the string-list check of one field
FieldListCheck(field_name, document, allowed_values) ==
  IF has_value(Get(document, field_name))
  THEN validate_string_list(field_name, Get(document, field_name), allowed_values)
  ELSE <<>>

\* the keys main's loop at line 364 checks
SCOPED_KEYS == <<"impact", "active", "kql_check">>

\* main lines 364-372, from scoped key i on
RECURSIVE ScopedChecks(_, _, _, _)
ScopedChecks(document, validations, scoped_keys, i) ==
  IF i > Len(scoped_keys) THEN <<>>
  ELSE LET scoped_key == scoped_keys[i]
           rest == ScopedChecks(document, validations, scoped_keys, i + 1)
       IN IF scoped_key \in DOMAIN document.v
          THEN validate_allowed_value(scoped_key, Get(document, scoped_key),
                                      validations[scoped_key]) \o rest
          ELSE rest

\* main lines 358-383: what the three auxiliary checks append to failures
AuxChecks(document, labels, validations, resources) ==
  FieldListCheck("labels", document, labels)
    \o ScopedChecks(document, validations, SCOPED_KEYS, 1)
    \o FieldListCheck("epic_resources", document, resources)

\* main lines 385-397: the status line of one parsed file
StatusTag(failures, warnings) ==
  IF Len(failures) > 0 THEN "FAIL"
  ELSE IF Len(warnings) > 0 THEN "WARN"
  ELSE "OK"

\* one printed block: the status line and the bullet lines under it
Block(tag, file, errors, warnings) ==
  [tag |-> tag, file |-> file, errors |-> errors, warnings |-> warnings]

\* main lines 385-397
Report(file, failures, warnings) ==
  Block(StatusTag(failures, warnings), file,
        IF Len(failures) > 0 THEN failures ELSE <<>>, warnings)

\* main line 353: what a file that failed to load adds to total_errors
ParseFailureErrors == 1

FileErrorCountDropped(failures) == 0
\* main line 386: what a parsed file adds to total_errors
FileErrorCount(failures) == Len(failures)

\* main lines 399-400: exit status once the loop has ended
FinalExitStatus(total) == IF total # 0 THEN 1 ELSE 0

\* ------------------------------------------------------------------ state

VARIABLES
  pc,                      \* where the run is
  config,                  \* the four configuration files, as found on disk
  waf_dir,                 \* the WAF folder: file name -> what loading it gives
  top_level_rules,         \* main's top_level_rules
  nested_rules,            \* main's nested_rules
  allowed_labels,          \* main's allowed_labels
  validations,             \* main's validations
  allowed_epic_resources,  \* main's allowed_epic_resources
  yaml_files,              \* main's yaml_files
  pos,                     \* how many files of yaml_files the loop has taken
  document,                \* the loop's document
  failures,                \* the loop's failures
  warnings,                \* the loop's warnings
  total_errors,            \* main's total_errors
  output,                  \* the blocks printed so far
  exit_status,             \* the process exit status, -1 while running
  raised,                  \* the uncaught exception that ended the run, or "none"
  lines,                   \* parse_template: the lines of the template file
  line_no,                 \* parse_template: how many lines the loop has taken
  top_level,               \* parse_template's top_level
  nested,                  \* parse_template's nested
  current_parent,          \* parse_template's current_parent
  current_list_parent,     \* parse_template's current_list_parent
  normalized               \* the results of successive normalize_scalar calls

vars ==
  <<pc, config, waf_dir, top_level_rules, nested_rules, allowed_labels, validations,
    allowed_epic_resources, yaml_files, pos, document, failures, warnings,
    total_errors, output, exit_status, raised, lines, line_no, top_level, nested,
    current_parent, current_list_parent, normalized>>

loaded == <<top_level_rules, nested_rules, allowed_labels, validations,
            allowed_epic_resources>>
inputs == <<config, waf_dir>>
locals == <<document, failures, warnings>>
parser == <<lines, line_no, top_level, nested, current_parent, current_list_parent>>
aside == <<parser, normalized>>

\* ----------------------------------------------------------------- inputs

a == <<"a">>
b == <<"b">>
c == <<"c">>
x == <<"x">>
prod == <<"p", "r", "o", "d">>
PROD == <<"P", "R", "O", "D">>
staging == <<"s", "t", "a", "g", "i", "n", "g">>
dev == <<"d", "e", "v">>
high == <<"h", "i", "g", "h">>
bogus == <<"b", "o", "g", "u", "s">>

Rule(key, status) == [key |-> key, status |-> status]
Template(rules, children) ==
  [t |-> "template", v |-> [top_level |-> rules, nested |-> children]]
NoNested == [k \in {} |-> <<>>]

\* title : mandatory / labels : mandatory / impact : optional
TemplateA ==
  Template(<<Rule("title", "mandatory"), Rule("labels", "mandatory"),
             Rule("impact", "optional")>>, NoNested)
\* title : mandatory / environments : optional, with "- name : mandatory" under it
TemplateB ==
  Template(<<Rule("title", "mandatory"), Rule("environments", "optional")>>,
           [environments |-> <<Rule("name", "mandatory")>>])

LabelsFile == List(<<Str(a), Str(<<" ", "b">>)>>)
ResourcesFile == Map([vm |-> List(<<Str(a)>>)])
ValidationsFile ==
  Map([impact |-> List(<<Str(prod), Str(<<"S", "t", "a", "g", "i", "n", "g">>)>>),
       active |-> List(<<Bool(TRUE), Bool(FALSE)>>),
       kql_check |-> List(<<Str(<<"Y", "e", "s">>), Str(<<"n", "o">>)>>)])
\* a validations file that also defines an allow-list for "severity"
ValidationsFileExtra ==
  Map([impact |-> List(<<Str(prod), Str(staging)>>),
       active |-> List(<<Bool(TRUE), Bool(FALSE)>>),
       kql_check |-> List(<<Str(<<"y", "e", "s">>), Str(<<"n", "o">>)>>),
       severity |-> List(<<Str(high), Str(<<"l", "o", "w">>)>>)])

Config(template, labels, vals, resources) ==
  [template |-> template, labels |-> labels, validations |-> vals,
   resources |-> resources]

\* What loading one YAML file gives: a parsed document, or a failure of load_yaml.
\* A YAML syntax error or an unreadable file is yaml.YAMLError / OSError; bytes
\* that are not UTF-8 make the text stream raise UnicodeDecodeError (a ValueError).
Unparseable == [t |-> "yaml_error", v |-> 0]
Undecodable == [t |-> "decode_error", v |-> 0]

\* configurations that load
GoodConfigs ==
  {Config(TemplateA, LabelsFile, ValidationsFile, ResourcesFile),
   Config(TemplateA, LabelsFile, ValidationsFileExtra, ResourcesFile),
   Config(TemplateB, Map([labels |-> LabelsFile]), ValidationsFileExtra, ResourcesFile)}

\* configurations with one file missing, malformed or empty
BadLabels ==
  {Missing, Unparseable, Undecodable, Map([names |-> List(<<Str(a)>>)]),
   List(<<Str(<<" ">>), Num(1)>>)}
BadValidations ==
  {Missing, Unparseable, Undecodable, List(<<Str(prod)>>),
   Map([impact |-> List(<<Str(prod)>>)]),
   Map([impact |-> List(<<Str(prod)>>), active |-> List(<<>>),
        kql_check |-> List(<<Str(x)>>)]),
   Map([impact |-> List(<<Str(prod)>>), active |-> List(<<Bool(TRUE)>>),
        kql_check |-> List(<<Str(<<" ">>), EmptyMap>>)])}
BadResources ==
  {Missing, Unparseable, Undecodable, Null, List(<<Num(1), Str(<<" ">>)>>)}

BadConfigs ==
  {Config(Missing, LabelsFile, ValidationsFile, ResourcesFile),
   Config(Undecodable, LabelsFile, ValidationsFile, ResourcesFile)}
    \cup {Config(TemplateA, labels, ValidationsFile, ResourcesFile) : labels \in BadLabels}
    \cup {Config(TemplateA, LabelsFile, vals, ResourcesFile) : vals \in BadValidations}
    \cup {Config(TemplateA, LabelsFile, ValidationsFile, resources) :
            resources \in BadResources}

DocOk == Map([title |-> Str(x), labels |-> List(<<Str(a)>>), impact |-> Str(PROD)])
DocWarn == Map([title |-> Str(x), active |-> Bool(TRUE)])
DocErrors == Map([impact |-> Str(dev), labels |-> List(<<Str(a), Str(c)>>)])
DocSeverity ==
  Map([title |-> Str(x), labels |-> List(<<Str(b)>>), severity |-> Str(bogus)])

FileContents ==
  {Unparseable, Undecodable, Null, List(<<Str(a)>>),
   DocOk, DocWarn, DocErrors, DocSeverity}

\* the most files the WAF folder holds
MaxFiles == 3

FileNames == 1..MaxFiles

\* every folder of at most MaxFiles files
Folders == UNION {[names -> FileContents] : names \in SUBSET FileNames}

\* ---------------------------------------------------------------- actions

\* parse_template has not run: its locals as lines 29-32 set them
ParserIdle ==
  /\ lines = <<>>
  /\ line_no = 0
  /\ top_level = <<>>
  /\ nested = NoNested
  /\ current_parent = None
  /\ current_list_parent = None

\* the folders of at most one file
SmallFolders == {folder \in Folders : Cardinality(DOMAIN folder) <= 1}

\* every good configuration with every folder, and every bad one with the
\* folders of at most one file
Init ==
  /\ pc = "config"
  /\ \/ config \in GoodConfigs /\ waf_dir \in Folders
     \/ config \in BadConfigs /\ waf_dir \in SmallFolders
  /\ top_level_rules = <<>>
  /\ nested_rules = <<>>
  /\ allowed_labels = {}
  /\ validations = <<>>
  /\ allowed_epic_resources = {}
  /\ yaml_files = <<>>
  /\ pos = 0
  /\ document = Null
  /\ failures = <<>>
  /\ warnings = <<>>
  /\ total_errors = 0
  /\ output = <<>>
  /\ exit_status = -1
  /\ raised = "none"
  /\ ParserIdle
  /\ normalized = <<>>

\* an uncaught exception: the interpreter prints a traceback and exits with 1
Abort(exception) ==
  /\ pc' = "exited"
  /\ raised' = exception
  /\ exit_status' = 1

\* main lines 337-340: the four loads, in order; the first that raises ends the
\* run, with the results of the loads before it already bound
LoadConfig ==
  /\ pc = "config"
  /\ LET rules == parse_template(config.template)
         labels == load_allowed_labels(config.labels)
         vals == load_validations(config.validations, REQUIRED_KEYS)
         resources == load_epic_resources(config.resources)
         first == IF rules.raised # "none" THEN rules.raised
                  ELSE IF labels.raised # "none" THEN labels.raised
                  ELSE IF vals.raised # "none" THEN vals.raised
                  ELSE resources.raised
         parsed == rules.raised = "none"
         labelled == parsed /\ labels.raised = "none"
         validated == labelled /\ vals.raised = "none"
     IN /\ top_level_rules' = IF parsed THEN rules.value.top_level ELSE top_level_rules
        /\ nested_rules' = IF parsed THEN rules.value.nested ELSE nested_rules
        /\ allowed_labels' = IF labelled THEN labels.value ELSE allowed_labels
        /\ validations' = IF validated THEN vals.value ELSE validations
        /\ IF first # "none"
           THEN /\ Abort(first)
                /\ UNCHANGED allowed_epic_resources
           ELSE /\ allowed_epic_resources' = resources.value
                /\ pc' = "discover"
                /\ UNCHANGED <<raised, exit_status>>
  /\ UNCHANGED <<inputs, aside, locals, yaml_files, pos, total_errors, output>>

\* main lines 342-347: list the folder; sys.exit(1) when it holds no YAML file
Discover ==
  /\ pc = "discover"
  /\ yaml_files' = iter_yaml_files(DOMAIN waf_dir)
  /\ IF yaml_files' = <<>>
     THEN /\ pc' = "exited"
          /\ exit_status' = 1
     ELSE /\ pc' = "loop"
          /\ UNCHANGED exit_status
  /\ total_errors' = 0
  /\ UNCHANGED <<inputs, aside, loaded, locals, pos, output, raised>>

\* main lines 348-354: load_yaml raised yaml.YAMLError or OSError
LoadFails ==
  /\ pc = "loop"
  /\ pos < Len(yaml_files)
  /\ waf_dir[yaml_files[pos + 1]].t = "yaml_error"
  /\ output' = Append(output, Block("FAIL", yaml_files[pos + 1], <<UnableToLoad>>, <<>>))
  /\ total_errors' = total_errors + ParseFailureErrors
  /\ pos' = pos + 1
  /\ UNCHANGED <<pc, inputs, aside, loaded, locals, yaml_files, exit_status, raised>>

\* main lines 349-351: load_yaml raised something the except clause does not name
LoadRaises ==
  /\ pc = "loop"
  /\ pos < Len(yaml_files)
  /\ waf_dir[yaml_files[pos + 1]].t = "decode_error"
  /\ Abort("UnicodeDecodeError")
  /\ UNCHANGED <<inputs, aside, loaded, locals, yaml_files, pos, total_errors, output>>

\* main lines 350-358 for a document that is not a mapping: validate_document
\* returns, then document.get raises AttributeError
DocumentRaises ==
  /\ pc = "loop"
  /\ pos < Len(yaml_files)
  /\ waf_dir[yaml_files[pos + 1]].t \in {"null", "str", "bool", "int", "float", "list"}
  /\ document' = waf_dir[yaml_files[pos + 1]]
  /\ failures' = validate_document(document', top_level_rules, nested_rules).errors
  /\ warnings' = validate_document(document', top_level_rules, nested_rules).warnings
  /\ Abort("AttributeError")
  /\ UNCHANGED <<inputs, aside, loaded, yaml_files, pos, total_errors, output>>

\* main lines 350-397 for a mapping: validate, run the three auxiliary checks,
\* print the block, add to total_errors
ProcessFile ==
  /\ pc = "loop"
  /\ pos < Len(yaml_files)
  /\ waf_dir[yaml_files[pos + 1]].t = "map"
  /\ document' = waf_dir[yaml_files[pos + 1]]
  /\ failures' = validate_document(document', top_level_rules, nested_rules).errors
                   \o AuxChecks(document', allowed_labels, validations,
                                allowed_epic_resources)
  /\ warnings' = validate_document(document', top_level_rules, nested_rules).warnings
  /\ output' = Append(output, Report(yaml_files[pos + 1], failures', warnings'))
  /\ total_errors' = total_errors + FileErrorCount(failures')
  /\ pos' = pos + 1
  /\ UNCHANGED <<pc, inputs, aside, loaded, yaml_files, exit_status, raised>>

\* main lines 399-400: the loop has ended
Finish ==
  /\ pc = "loop"
  /\ pos = Len(yaml_files)
  /\ pc' = "exited"
  /\ exit_status' = FinalExitStatus(total_errors)
  /\ UNCHANGED <<inputs, aside, loaded, locals, yaml_files, pos, total_errors, output, raised>>

Next ==
  \/ LoadConfig
  \/ Discover
  \/ LoadFails
  \/ LoadRaises
  \/ DocumentRaises
  \/ ProcessFile
  \/ Finish

Spec == Init /\ [][Next]_vars

\* ------------------------------------- one document under many templates

\* the top-level keys the templates of SpecDoc draw from, in template order
TemplateKeys == <<"title", "end_date", "labels", "specs", "epic_resources">>

\* the most top-level rules of a template of SpecDoc
MaxRules == 2

\* the child rules of the one nested parent a template of SpecDoc may have
ChildRules == <<Rule("name", "mandatory"), Rule("owner", "optional")>>

\* the subsequence of TemplateKeys with the keys of the set, each with its status
RECURSIVE RulesOf(_, _, _)
RulesOf(keys, status, i) ==
  IF i > Len(TemplateKeys) THEN <<>>
  ELSE IF TemplateKeys[i] \in keys
       THEN <<Rule(TemplateKeys[i], status[TemplateKeys[i]])>> \o RulesOf(keys, status, i + 1)
       ELSE RulesOf(keys, status, i + 1)

KeySets ==
  {keys \in SUBSET {TemplateKeys[i] : i \in 1..Len(TemplateKeys)} :
     Cardinality(keys) \in 1..MaxRules}

\* every template of 1..MaxRules rules, with no nested rules or with ChildRules
\* under one of its keys (parse_template files nested keys under a top-level key)
DocTemplates ==
  UNION {UNION {{[top_level |-> RulesOf(keys, status, 1), nested |-> NoNested]}
                  \cup {[top_level |-> RulesOf(keys, status, 1),
                         nested |-> [k \in {parent} |-> ChildRules]] : parent \in keys}
                : status \in [keys -> {"mandatory", "optional"}]}
         : keys \in KeySets}

\* the values a document key takes in SpecDoc
DocValues ==
  {Null, Str(<<>>), Str(<<" ", "\t">>), Str(<<"N", "u", "l", "l", " ">>), Str(x),
   Str(PROD), Num(0), Bool(FALSE), List(<<>>), EmptyMap, List(<<Str(a)>>),
   List(<<Map([name |-> Str(x)])>>), List(<<Map([other |-> Num(1)])>>),
   Map([name |-> Str(x)])}

DocKeys == {TemplateKeys[i] : i \in 1..Len(TemplateKeys)} \cup {"impact"}

\* the documents of SpecDoc: the empty mapping, every one-key mapping, and two
\* roots that are not mappings
Documents ==
  {EmptyMap, Null, List(<<Str(a)>>)}
    \cup {Map([k \in {key} |-> value]) : key \in DocKeys, value \in DocValues}

InitDoc ==
  /\ pc = "doc"
  /\ config = Config(TemplateA, LabelsFile, ValidationsFileExtra, ResourcesFile)
  /\ waf_dir = <<>>
  /\ \E template \in DocTemplates :
       /\ top_level_rules = template.top_level
       /\ nested_rules = template.nested
  /\ allowed_labels = load_allowed_labels(LabelsFile).value
  /\ validations = load_validations(ValidationsFileExtra, REQUIRED_KEYS).value
  /\ allowed_epic_resources = load_epic_resources(ResourcesFile).value
  /\ yaml_files = <<1>>
  /\ pos = 0
  /\ document \in Documents
  /\ failures = <<>>
  /\ warnings = <<>>
  /\ total_errors = 0
  /\ output = <<>>
  /\ exit_status = -1
  /\ raised = "none"
  /\ ParserIdle
  /\ normalized = <<>>

\* main line 356: failures, warnings = validate_document(...)
DocValidate ==
  /\ pc = "doc"
  /\ failures' = validate_document(document, top_level_rules, nested_rules).errors
  /\ warnings' = validate_document(document, top_level_rules, nested_rules).warnings
  /\ pc' = "doc_validated"
  /\ UNCHANGED <<inputs, aside, loaded, yaml_files, pos, document, total_errors, output,
                 exit_status, raised>>

\* main lines 358-397: document.get raises on a root that is not a mapping;
\* otherwise the auxiliary checks extend failures and the block is printed
DocFinish ==
  /\ pc = "doc_validated"
  /\ IF document.t # "map"
     THEN /\ Abort("AttributeError")
          /\ UNCHANGED <<failures, output, total_errors, pos>>
     ELSE /\ failures' = failures \o AuxChecks(document, allowed_labels, validations,
                                              allowed_epic_resources)
          /\ output' = Append(output, Report(yaml_files[pos + 1], failures', warnings))
          /\ total_errors' = total_errors + FileErrorCount(failures')
          /\ pos' = pos + 1
          /\ pc' = "doc_done"
          /\ UNCHANGED <<exit_status, raised>>
  /\ UNCHANGED <<inputs, aside, loaded, yaml_files, document, warnings>>

NextDoc ==
  \/ DocValidate
  \/ DocFinish

SpecDoc == InitDoc /\ [][NextDoc]_vars

\* ------------------------------------------------- the nested check alone

\* the most entries of a list value in SpecNested
MaxEntries == 2

\* the entries of a list value
Entries ==
  {Str(a), EmptyMap, Map([other |-> Num(1)]), Map([name |-> Str(x)]),
   Map([name |-> Str(<<" ">>), owner |-> Str(x)]), Map([name |-> Num(0), owner |-> Null]),
   Map([name |-> Null]), Map([owner |-> Str(x)])}

\* the values of the parent key: lists of up to MaxEntries entries, the
\* mappings among the entries, null and two scalars
NestedValues ==
  {List(entries) : entries \in UNION {[1..n -> Entries] : n \in 0..MaxEntries}}
    \cup {entry \in Entries : entry.t = "map"}
    \cup {Null, Str(x), Num(1)}

\* the child-rule mappings: one or two of name and owner, in either order
ChildRuleSets ==
  {<<Rule(key, status)>> : key \in {"name", "owner"}, status \in {"mandatory", "optional"}}
    \cup {<<Rule("name", s1), Rule("owner", s2)>> :
            s1 \in {"mandatory", "optional"}, s2 \in {"mandatory", "optional"}}
    \cup {<<Rule("owner", s1), Rule("name", s2)>> :
            s1 \in {"mandatory", "optional"}, s2 \in {"mandatory", "optional"}}

InitNested ==
  /\ pc = "nested"
  /\ config = Config(TemplateB, LabelsFile, ValidationsFile, ResourcesFile)
  /\ waf_dir = <<>>
  /\ top_level_rules = <<Rule("environments", "optional")>>
  /\ \E rules \in ChildRuleSets : nested_rules = [environments |-> rules]
  /\ allowed_labels = {}
  /\ validations = <<>>
  /\ allowed_epic_resources = {}
  /\ yaml_files = <<>>
  /\ pos = 0
  /\ \E value \in NestedValues : document = Map([environments |-> value])
  /\ failures = <<>>
  /\ warnings = <<>>
  /\ total_errors = 0
  /\ output = <<>>
  /\ exit_status = -1
  /\ raised = "none"
  /\ ParserIdle
  /\ normalized = <<>>

\* validate_document line 245: errors.extend(validate_nested(key, content[key],
\* nested_rules[key]))
NestedCheck ==
  /\ pc = "nested"
  /\ failures' = failures \o validate_nested("environments", document.v["environments"],
                                             nested_rules["environments"])
  /\ pc' = "nested_done"
  /\ UNCHANGED <<inputs, aside, loaded, yaml_files, pos, document, warnings, total_errors,
                 output, exit_status, raised>>

NextNested == NestedCheck

SpecNested == InitNested /\ [][NextNested]_vars

\* ---------------------------------------------- the scalar allow-list alone

\* the most entries of the allow-list written in the validations file
MaxAllowed == 2

\* the entries of an allow-list as written in the validations file
AllowEntries ==
  {Str(prod), Str(<<"S", "t", "a", "g", "i", "n", "g", " ">>), Str(<<" ">>), Bool(TRUE),
   Num(1), Null, Str(<<"Z">>), List(<<Str(PROD)>>),
   OrderedMap(<<"b", "a">>, [b |-> Num(1), a |-> Str(<<"A">>)])}

\* the validations files of SpecScalar: impact with 1..MaxAllowed entries
ScalarValidationFiles ==
  {Map([impact |-> List(entries), active |-> List(<<Bool(TRUE)>>),
        kql_check |-> List(<<Str(x)>>)])
     : entries \in UNION {[1..n -> AllowEntries] : n \in 1..MaxAllowed}}

\* the values of impact in the document
ScalarValues ==
  {Null, Str(PROD), Str(<<" ", "p", "r", "o", "d", "\n">>), Str(dev), Str(staging),
   Str(<<"T", "R", "U", "E">>), Str(<<"n", "u", "l", "l">>), Str(<<"1">>), Str(<<>>),
   Bool(TRUE), Bool(FALSE), Num(1), Num(10), Num(-1), Float(10),
   Str(<<"[", "'", "p", "r", "o", "d", "'", "]">>),
   List(<<>>), List(<<Str(prod)>>), EmptyMap, Map([name |-> Str(prod)])}

InitScalar ==
  /\ pc = "scalar"
  /\ \E file \in ScalarValidationFiles :
       config = Config(TemplateA, LabelsFile, file, ResourcesFile)
  /\ waf_dir = <<>>
  /\ top_level_rules = <<>>
  /\ nested_rules = <<>>
  /\ allowed_labels = {}
  /\ validations = <<>>
  /\ allowed_epic_resources = {}
  /\ yaml_files = <<>>
  /\ pos = 0
  /\ \E value \in ScalarValues : document = Map([impact |-> value])
  /\ failures = <<>>
  /\ warnings = <<>>
  /\ total_errors = 0
  /\ output = <<>>
  /\ exit_status = -1
  /\ raised = "none"
  /\ ParserIdle
  /\ normalized = <<>>

\* main line 339: validations = load_validations(...); a raise ends the run
ScalarLoad ==
  /\ pc = "scalar"
  /\ LET vals == load_validations(config.validations, REQUIRED_KEYS)
     IN IF vals.raised # "none"
        THEN /\ Abort(vals.raised)
             /\ UNCHANGED validations
        ELSE /\ validations' = vals.value
             /\ pc' = "scalar_loaded"
             /\ UNCHANGED <<raised, exit_status>>
  /\ UNCHANGED <<inputs, aside, top_level_rules, nested_rules, allowed_labels,
                 allowed_epic_resources, yaml_files, pos, locals, total_errors, output>>

\* main lines 366-372: failures.extend(validate_allowed_value(scoped_key,
\* document.get(scoped_key), validations[scoped_key]))
ScalarCheck ==
  /\ pc = "scalar_loaded"
  /\ failures' = failures \o validate_allowed_value("impact", Get(document, "impact"),
                                                    validations["impact"])
  /\ pc' = "scalar_done"
  /\ UNCHANGED <<inputs, aside, loaded, yaml_files, pos, document, warnings, total_errors,
                 output, exit_status, raised>>

NextScalar ==
  \/ ScalarLoad
  \/ ScalarCheck

SpecScalar == InitScalar /\ [][NextScalar]_vars

\* ------------------------------------------------ normalize_scalar alone

\* the longest text drawn over TextChars
MaxText == 2

TextChars == {"T", "r", "U", "e", " "}

\* every text of at most MaxText characters
Texts == UNION {[1..n -> TextChars] : n \in 0..MaxText}

\* the spellings of true the allow-lists and documents use
TrueSpellings ==
  {Bool(TRUE), Str(<<"T", "r", "u", "e">>), Str(<<"T", "R", "U", "E">>)}

\* the scalars normalize_scalar is applied to: strings, booleans, numbers and null
NormalizeValues ==
  {Str(s) : s \in Texts}
    \cup TrueSpellings
    \cup {Str(PROD), Str(<<" ", "N", "u", "l", "l", "\t">>), Str(<<"F", "a", "l", "s", "e">>),
          Str(<<"-", "1">>), Str(<<" ", "1", "0", "\n">>)}
    \cup {Bool(FALSE), Null}
    \cup {Num(0), Num(1), Num(-1), Num(10), Num(-25), Num(100)}
    \cup {Float(0), Float(15), Float(-5), Float(1000)}

InitNormalize ==
  /\ pc = "normalize"
  /\ config = Config(TemplateA, LabelsFile, ValidationsFile, ResourcesFile)
  /\ waf_dir = <<>>
  /\ top_level_rules = <<>>
  /\ nested_rules = <<>>
  /\ allowed_labels = {}
  /\ validations = <<>>
  /\ allowed_epic_resources = {}
  /\ yaml_files = <<>>
  /\ pos = 0
  /\ document \in NormalizeValues
  /\ failures = <<>>
  /\ warnings = <<>>
  /\ total_errors = 0
  /\ output = <<>>
  /\ exit_status = -1
  /\ raised = "none"
  /\ ParserIdle
  /\ normalized = <<>>

\* normalize_scalar(value) on the scalar as YAML gave it
NormalizeOnce ==
  /\ pc = "normalize"
  /\ normalized' = <<normalize_scalar(document)>>
  /\ pc' = "normalized_once"
  /\ UNCHANGED <<inputs, loaded, locals, parser, yaml_files, pos, total_errors, output,
                 exit_status, raised>>

\* normalize_scalar on the string the first call returned
NormalizeAgain ==
  /\ pc = "normalized_once"
  /\ normalized' = Append(normalized, normalize_scalar(Str(normalized[1])))
  /\ pc' = "normalized_twice"
  /\ UNCHANGED <<inputs, loaded, locals, parser, yaml_files, pos, total_errors, output,
                 exit_status, raised>>

NextNormalize ==
  \/ NormalizeOnce
  \/ NormalizeAgain

SpecNormalize == InitNormalize /\ [][NextNormalize]_vars

\* ------------------------------------------- the string-list check alone

\* the most entries of the list under labels or epic_resources in SpecList
MaxLabels == 2

\* the entries of such a list
ListEntries ==
  {Str(a), Str(<<" ", "b", "\t">>), Str(c), Str(<<"A">>), Str(<<" ">>), Num(1), Null,
   Map([name |-> Str(a)])}

\* the values of the field: lists of up to MaxLabels entries, and values that
\* are not lists
ListValues ==
  {List(entries) : entries \in UNION {[1..n -> ListEntries] : n \in 0..MaxLabels}}
    \cup {Null, Str(<<" ">>), Str(a), Num(0), Bool(FALSE), Map([name |-> Str(a)])}

ListFields == {"labels", "epic_resources"}

InitList ==
  /\ pc = "list"
  /\ config = Config(TemplateA, LabelsFile, ValidationsFile, ResourcesFile)
  /\ waf_dir = <<>>
  /\ top_level_rules = <<>>
  /\ nested_rules = <<>>
  /\ allowed_labels = load_allowed_labels(LabelsFile).value
  /\ validations = <<>>
  /\ allowed_epic_resources = load_epic_resources(ResourcesFile).value
  /\ yaml_files = <<>>
  /\ pos = 0
  /\ \E field \in ListFields, value \in ListValues :
       document = Map([k \in {field} |-> value])
  /\ failures = <<>>
  /\ warnings = <<>>
  /\ total_errors = 0
  /\ output = <<>>
  /\ exit_status = -1
  /\ raised = "none"
  /\ ParserIdle
  /\ normalized = <<>>

\* main lines 358-362 and 374-383: the two validate_string_list calls
ListCheck ==
  /\ pc = "list"
  /\ failures' = failures \o FieldListCheck("labels", document, allowed_labels)
                          \o FieldListCheck("epic_resources", document,
                                            allowed_epic_resources)
  /\ pc' = "list_done"
  /\ UNCHANGED <<inputs, aside, loaded, yaml_files, pos, document, warnings,
                 total_errors, output, exit_status, raised>>

NextList == ListCheck

SpecList == InitList /\ [][NextList]_vars

\* ------------------------------------------------ the template parser alone

\* the most lines of a template text in SpecTemplate
MaxLines == 3

foo == <<"f", "o", "o">>
bar_2 == <<"b", "a", "r", "_", "2">>
name == <<"n", "a", "m", "e">>
owner == <<"o", "w", "n", "e", "r">>

\* the lines of a template text
TemplateLines ==
  {foo \o <<":", " ">> \o mandatory,
   foo \o <<":", " ">> \o optional,
   bar_2 \o <<" ", ":">> \o <<"O", "p", "t", "i", "o", "n", "a", "l", " ">>,
   <<" ", " ", "-", " ">> \o name \o <<":", " ">> \o mandatory,
   <<"-", " ">> \o name \o <<":", " ">> \o mandatory,
   <<"\t">> \o owner \o <<":", " ">> \o optional,
   foo \o <<":">>,
   <<" ", " ">>,
   <<"-", " ">> \o foo}

\* every template text of at most MaxLines lines
TemplateTexts == UNION {[1..n -> TemplateLines] : n \in 0..MaxLines}

InitTemplate ==
  /\ pc = "parse"
  /\ config = Config(TemplateA, LabelsFile, ValidationsFile, ResourcesFile)
  /\ waf_dir = <<>>
  /\ top_level_rules = <<>>
  /\ nested_rules = <<>>
  /\ allowed_labels = {}
  /\ validations = <<>>
  /\ allowed_epic_resources = {}
  /\ yaml_files = <<>>
  /\ pos = 0
  /\ document = Null
  /\ failures = <<>>
  /\ warnings = <<>>
  /\ total_errors = 0
  /\ output = <<>>
  /\ exit_status = -1
  /\ raised = "none"
  /\ lines \in TemplateTexts
  /\ line_no = 0
  /\ top_level = <<>>
  /\ nested = NoNested
  /\ current_parent = None
  /\ current_list_parent = None
  /\ normalized = <<>>

\* parse_template lines 34-63: the loop takes the next line
ParseStep ==
  /\ pc = "parse"
  /\ line_no < Len(lines)
  /\ LET after == ParseLine([top_level |-> top_level, nested |-> nested,
                             current_parent |-> current_parent,
                             current_list_parent |-> current_list_parent],
                            lines[line_no + 1])
     IN /\ top_level' = after.top_level
        /\ nested' = after.nested
        /\ current_parent' = after.current_parent
        /\ current_list_parent' = after.current_list_parent
  /\ line_no' = line_no + 1
  /\ UNCHANGED <<pc, inputs, loaded, locals, lines, normalized, yaml_files, pos,
                 total_errors, output, exit_status, raised>>

\* parse_template line 65 and main line 337: the tables are returned
ParseReturn ==
  /\ pc = "parse"
  /\ line_no = Len(lines)
  /\ top_level_rules' = top_level
  /\ nested_rules' = nested
  /\ pc' = "parsed"
  /\ UNCHANGED <<inputs, aside, allowed_labels, validations, allowed_epic_resources,
                 locals, yaml_files, pos, total_errors, output, exit_status, raised>>

NextTemplate ==
  \/ ParseStep
  \/ ParseReturn

SpecTemplate == InitTemplate /\ [][NextTemplate]_vars

\* ------------------------------------------------- claims: the batch runner

\* load_yaml returned a document for this file
Parsed(content) == content.t \notin {"yaml_error", "decode_error"}

\* all four configuration files of the run load
ConfigLoads ==
  /\ parse_template(config.template).raised = "none"
  /\ load_allowed_labels(config.labels).raised = "none"
  /\ load_validations(config.validations, REQUIRED_KEYS).raised = "none"
  /\ load_epic_resources(config.resources).raised = "none"

\* the error messages the per-document step collects for a parsed document
DocumentErrors(content) ==
  validate_document(content, top_level_rules, nested_rules).errors
    \o (IF content.t = "map"
        THEN AuxChecks(content, allowed_labels, validations, allowed_epic_resources)
        ELSE <<>>)

\* C1: when the configuration loaded and the run has ended, the exit status is 0
\* exactly when the folder held at least one YAML file, every file was parsed and
\* no file has an error; warnings play no part.
C1_ExitZeroIffNoErrors ==
  (pc = "exited" /\ ConfigLoads) =>
    (exit_status = 0 <=>
       /\ DOMAIN waf_dir # {}
       /\ \A n \in DOMAIN waf_dir : Parsed(waf_dir[n])
       /\ \A n \in DOMAIN waf_dir : DocumentErrors(waf_dir[n]) = <<>>)

\* a run that ended with status 0 although a file was reported [WARN]
C1_Witness ==
  /\ pc = "exited"
  /\ exit_status = 0
  /\ \E i \in 1..Len(output) : output[i].tag = "WARN" /\ Len(output[i].warnings) > 0

\* C2: the per-document step never raises: once a run that loaded every file it
\* reached has ended, every parsed document has its block, in order, so the run
\* went on past it.
C2_DocumentStepNeverRaises ==
  (pc = "exited" /\ ConfigLoads /\ raised # "UnicodeDecodeError") =>
    \A i \in 1..Len(yaml_files) :
      Parsed(waf_dir[yaml_files[i]]) =>
        /\ i <= Len(output)
        /\ output[i].file = yaml_files[i]
        /\ raised = "none"

\* C3: a YAML parse failure never aborts the batch: when the run of a folder with
\* a file that is not valid YAML (and no file that cannot even be decoded) has
\* ended, every file has exactly one block, in sorted order, each unparseable
\* file's block is [FAIL] and counts at least one error, and the exit status is
\* not 0.
C3_ParseFailureNeverAborts ==
  ( /\ pc = "exited"
    /\ ConfigLoads
    /\ \E n \in DOMAIN waf_dir : waf_dir[n].t = "yaml_error"
    /\ \A n \in DOMAIN waf_dir : waf_dir[n].t # "decode_error" ) =>
    /\ Len(output) = Len(yaml_files)
    /\ \A i \in 1..Len(output) : output[i].file = yaml_files[i]
    /\ \A i \in 1..Len(output) :
         ~Parsed(waf_dir[yaml_files[i]]) => output[i].tag = "FAIL"
    /\ total_errors >= Cardinality({n \in DOMAIN waf_dir : ~Parsed(waf_dir[n])})
    /\ exit_status # 0

\* C10: every key of the loaded validations mapping is checked: a reported
\* document holding such a key with a non-null scalar whose normalized form is
\* not in the key's allow-list has an error for that key.
C10_EveryValidationKeyChecked ==
  \A i \in 1..Len(output) :
    LET doc == waf_dir[output[i].file]
    IN doc.t = "map" =>
         \A key \in DOMAIN validations :
           ( /\ key \in DOMAIN doc.v
             /\ doc.v[key].t \in {"str", "bool", "int"}
             /\ normalize_scalar(doc.v[key]) \notin validations[key] )
           => \E j \in 1..Len(output[i].errors) :
                /\ output[i].errors[j].kind = "must_be_one_of"
                /\ output[i].errors[j].key = key

\* ------------------------------------------- claims: validate_document

\* the template marks the key mandatory
Mandatory(key) ==
  \E i \in 1..Len(top_level_rules) : top_level_rules[i] = Rule(key, "mandatory")

\* the positions of the messages about a key
About(messages, key) == {j \in 1..Len(messages) : messages[j].key = key}

\* the messages about the key are exactly the one given
OnlyMessage(messages, key, message) ==
  /\ Cardinality(About(messages, key)) = 1
  /\ \A j \in About(messages, key) : messages[j] = message

\* the presence test fails: null, a string of whitespace only, an empty list or
\* an empty mapping
Blank(value) == value.t = "str" /\ \A i \in 1..Len(value.v) : value.v[i] \in Whitespace
FailsPresence(value) ==
  \/ value.t = "null"
  \/ Blank(value)
  \/ (value.t = "list" /\ Len(value.v) = 0)
  \/ (value.t = "map" /\ DOMAIN value.v = {})

\* the key is absent from the document or present without a value
AbsentOrEmpty(key) ==
  key \notin DOMAIN document.v \/ FailsPresence(document.v[key])

SoftKeys == {"labels", "specs", "epic_resources"}

\* validate_document has returned for a mapping
Validated == pc = "doc_validated" /\ document.t = "map"

\* C4 as claimed: with end_date mandatory, a null, blank or absent end_date gives
\* no error about end_date.
C4_EndDateBlankOrAbsentNoError ==
  ( /\ Validated
    /\ Mandatory("end_date")
    /\ \/ "end_date" \notin DOMAIN document.v
       \/ document.v["end_date"].t = "null"
       \/ Blank(document.v["end_date"]) )
  => About(failures, "end_date") = {}

\* C4 as the code has it: a null or blank end_date gives no error about
\* end_date; an absent end_date gives exactly the one missing-key error.
C4_EndDateBlankNoErrorAbsentError ==
  ( /\ Validated
    /\ Mandatory("end_date")
    /\ \/ "end_date" \notin DOMAIN document.v
       \/ document.v["end_date"].t = "null"
       \/ Blank(document.v["end_date"]) )
  => IF "end_date" \in DOMAIN document.v
     THEN About(failures, "end_date") = {}
     ELSE OnlyMessage(failures, "end_date", MissingKey("end_date"))

\* a mandatory end_date holding a blank string, validated without any error
C4_Witness ==
  /\ Validated
  /\ Mandatory("end_date")
  /\ "end_date" \in DOMAIN document.v
  /\ document.v["end_date"] = Str(<<" ", "\t">>)
  /\ failures = <<>>

\* every rule of the template is met or is a mandatory soft-warning key without
\* a value, at least one is of the latter kind, and nothing the auxiliary checks
\* look at has a value
OnlySoftDefects ==
  /\ document.t = "map"
  /\ \E key \in SoftKeys : Mandatory(key) /\ AbsentOrEmpty(key)
  /\ \A i \in 1..Len(top_level_rules) :
       LET key == top_level_rules[i].key
       IN \/ key \in SoftKeys /\ Mandatory(key) /\ AbsentOrEmpty(key)
          \/ ~AbsentOrEmpty(key) /\ key \notin DOMAIN nested_rules
          \/ ~Mandatory(key) /\ key \notin DOMAIN nested_rules
  /\ \A key \in {"labels", "epic_resources"} : AbsentOrEmpty(key)
  /\ \A key \in {"impact", "active", "kql_check"} : key \notin DOMAIN document.v

\* C5: a mandatory soft-warning key that is absent or has no value gets exactly
\* one warning and no error, from validate_document and from the auxiliary
\* checks; a document with only such defects is reported [WARN] and adds nothing
\* to total_errors.
C5_SoftKeysWarnOnly ==
  /\ (pc \in {"doc_validated", "doc_done"} /\ document.t = "map") =>
       \A key \in SoftKeys :
         (Mandatory(key) /\ AbsentOrEmpty(key)) =>
           /\ OnlyMessage(warnings, key, OptionalMissing(key))
           /\ About(failures, key) = {}
  /\ (pc = "doc_done" /\ OnlySoftDefects) =>
       /\ output[1].tag = "WARN"
       /\ output[1].warnings = warnings
       /\ total_errors = 0

\* a document reported [WARN] whose mandatory specs key holds an empty list
C5_Witness ==
  /\ pc = "doc_done"
  /\ Mandatory("specs")
  /\ "specs" \in DOMAIN document.v
  /\ document.v["specs"] = List(<<>>)
  /\ "specs" \in DOMAIN nested_rules
  /\ output[1].tag = "WARN"
  /\ total_errors = 0

\* C6: for a mandatory key that is neither a soft-warning key nor end_date,
\* validate_document gives exactly one missing-key error when the key is absent
\* or fails the presence test and none otherwise; numbers and booleans, 0 and
\* false included, are present.
C6_MissingMandatoryIffNoValue ==
  Validated =>
    \A i \in 1..Len(top_level_rules) :
      LET key == top_level_rules[i].key
          missing == {j \in 1..Len(failures) : failures[j] = MissingKey(key)}
      IN (top_level_rules[i].status = "mandatory"
            /\ key \notin SoftKeys /\ key # "end_date") =>
           /\ Cardinality(missing) = (IF AbsentOrEmpty(key) THEN 1 ELSE 0)
           /\ (key \in DOMAIN document.v /\ document.v[key].t \in {"int", "bool"})
                => missing = {}

\* a mandatory title holding 0, validated without a missing-key error
C6_Witness ==
  /\ Validated
  /\ Mandatory("title")
  /\ "title" \in DOMAIN document.v
  /\ document.v["title"] = Num(0)
  /\ failures = <<>>

\* C8 as claimed: a key with nested rules that is present in the document gets,
\* whatever its status, exactly the nested check's error for an empty list, for
\* null and for a scalar.
C8_NestedCheckWhateverStatus ==
  Validated =>
    \A key \in DOMAIN nested_rules \cap DOMAIN document.v :
      LET value == document.v[key]
      IN /\ value = List(<<>>) => OnlyMessage(failures, key, AtLeastOneEntry(key))
         /\ value.t = "null" => OnlyMessage(failures, key, MustNotBeEmpty(key))
         /\ value.t \in {"str", "int", "bool"}
              => OnlyMessage(failures, key, MustBeListOrMapping(key))

\* C8 as the code has it: the nested check runs unless the key is mandatory and
\* its value fails the presence test; in that case the mandatory branch alone
\* speaks: one missing-key error, or none for a soft-warning key and for a null
\* or blank end_date.
C8_NestedCheckUnlessMandatoryEmpty ==
  Validated =>
    \A key \in DOMAIN nested_rules \cap DOMAIN document.v :
      LET value == document.v[key]
      IN IF Mandatory(key) /\ FailsPresence(value)
         THEN IF key \in SoftKeys
                 \/ (key = "end_date" /\ (value.t = "null" \/ Blank(value)))
              THEN About(failures, key) = {}
              ELSE OnlyMessage(failures, key, MissingKey(key))
         ELSE /\ value = List(<<>>) => OnlyMessage(failures, key, AtLeastOneEntry(key))
              /\ value.t = "null" => OnlyMessage(failures, key, MustNotBeEmpty(key))
              /\ value.t \in {"str", "int", "bool"}
                   => OnlyMessage(failures, key, MustBeListOrMapping(key))

\* an optional key with nested rules holding an empty list: the one error is the
\* nested check's
C8_Witness ==
  /\ Validated
  /\ "title" \in DOMAIN nested_rules
  /\ ~Mandatory("title")
  /\ "title" \in DOMAIN document.v
  /\ document.v["title"] = List(<<>>)
  /\ failures = <<AtLeastOneEntry("title")>>

\* ---------------------------------------------- claims: validate_nested

\* the value validate_nested was given
NestedValue == document.v["environments"]
NestedRuleSeq == nested_rules["environments"]

\* the child key of the entry has no value: absent, or failing the presence test
ChildEmpty(entry, key) == key \notin DOMAIN entry.v \/ FailsPresence(entry.v[key])

\* C7: for a non-empty list the nested check gives, in entry order, exactly one
\* must-be-an-object error per entry that is not a mapping and, per mapping
\* entry, exactly one error naming index and child key for every mandatory child
\* key without a value; optional child keys give nothing. Rule {name: mandatory}
\* on [{other: 1}] gives exactly the error for index 0 and key name.
C7_NestedListErrors ==
  (pc = "nested_done" /\ NestedValue.t = "list" /\ Len(NestedValue.v) > 0) =>
    /\ \A i \in 1..Len(NestedValue.v) :
         LET entry == NestedValue.v[i]
             at == {j \in 1..Len(failures) : failures[j].idx = i - 1}
         IN IF entry.t # "map"
            THEN /\ Cardinality(at) = 1
                 /\ \A j \in at : failures[j] = EntryNotObject("environments", i - 1)
            ELSE /\ \A j \in at : failures[j].kind = "entry_missing_key"
                 /\ \A q \in 1..Len(NestedRuleSeq) :
                      Cardinality({j \in at : failures[j].child = NestedRuleSeq[q].key})
                        = (IF NestedRuleSeq[q].status = "mandatory"
                              /\ ChildEmpty(entry, NestedRuleSeq[q].key)
                           THEN 1 ELSE 0)
    /\ \A j \in 1..Len(failures) :
         /\ failures[j].idx \in 0..(Len(NestedValue.v) - 1)
         /\ failures[j].key = "environments"
         /\ failures[j].kind = "entry_missing_key"
              => \E q \in 1..Len(NestedRuleSeq) : NestedRuleSeq[q].key = failures[j].child
    /\ \A j \in 1..Len(failures) : \A k \in 1..Len(failures) :
         j < k => failures[j].idx <= failures[k].idx
    /\ (NestedRuleSeq = <<Rule("name", "mandatory")>>
          /\ NestedValue = List(<<Map([other |-> Num(1)])>>))
         => failures = <<EntryMissingKey("environments", 0, "name")>>

\* rule {name: mandatory, owner: optional} on [{other: 1}, "a"]: one error for
\* index 0 and key name, one must-be-an-object error for index 1
C7_Witness ==
  /\ pc = "nested_done"
  /\ NestedRuleSeq = <<Rule("name", "mandatory"), Rule("owner", "optional")>>
  /\ NestedValue = List(<<Map([other |-> Num(1)]), Str(a)>>)
  /\ failures = <<EntryMissingKey("environments", 0, "name"),
                  EntryNotObject("environments", 1)>>

\* ----------------------------------------- claims: validate_allowed_value

ScalarValue == document.v["impact"]

\* strictly increasing in Python's string order
Increasing(listing) ==
  \A i \in 1..Len(listing) : \A j \in 1..Len(listing) :
    i < j => StrLess(listing[i], listing[j])

\* C9: the scalar allow-list check gives no error for null, exactly one
\* must-be-a-scalar error for a list or mapping, and for any other value exactly
\* one error if and only if the normalized value is not in the allow-list, the
\* error listing the allow-list in sorted order; with {prod, staging}, PROD
\* passes and dev fails with the listing prod, staging.
C9_AllowedValueCheck ==
  pc = "scalar_done" =>
    /\ ScalarValue.t = "null" => failures = <<>>
    /\ ScalarValue.t \in {"list", "map"} => failures = <<MustBeScalar("impact")>>
    /\ ScalarValue.t \in {"str", "bool", "int", "float"} =>
         /\ Len(failures) <= 1
         /\ failures = <<>> <=> normalize_scalar(ScalarValue) \in validations["impact"]
         /\ \A j \in 1..Len(failures) :
              /\ failures[j].kind = "must_be_one_of"
              /\ failures[j].key = "impact"
              /\ failures[j].value = ScalarValue
              /\ Increasing(failures[j].listing)
              /\ {failures[j].listing[i] : i \in 1..Len(failures[j].listing)}
                   = validations["impact"]
    /\ validations["impact"] = {prod, staging} =>
         /\ ScalarValue = Str(PROD) => failures = <<>>
         /\ ScalarValue = Str(dev)
              => failures = <<MustBeOneOf("impact", Str(dev), <<prod, staging>>)>>

\* the allow-list written [Staging , prod] and the value dev: one error, listing
\* prod, staging
C9_Witness ==
  /\ pc = "scalar_done"
  /\ config.validations.v["impact"]
       = List(<<Str(<<"S", "t", "a", "g", "i", "n", "g", " ">>), Str(prod)>>)
  /\ ScalarValue = Str(dev)
  /\ failures = <<MustBeOneOf("impact", Str(dev), <<prod, staging>>)>>

\* ------------------------------------------- claims: normalize_scalar

\* C11: normalize_scalar is idempotent on strings, booleans, numbers and null:
\* normalizing the string it returned gives that string again; and the boolean
\* true, "True" and "TRUE" all normalize to one and the same string.
C11_NormalizeIdempotent ==
  /\ pc = "normalized_twice" => normalized[2] = normalized[1]
  /\ (pc # "normalize" /\ document \in TrueSpellings) =>
       \A value \in TrueSpellings : normalize_scalar(value) = normalized[1]

\* a string that normalization changed, normalized a second time
C11_Witness ==
  /\ pc = "normalized_twice"
  /\ document.t = "str"
  /\ normalized[1] # document.v
  /\ normalized[1] # <<>>

\* ------------------------------------------- claims: validate_string_list

\* the allow-list main passes for the field
AllowedFor(field) ==
  IF field = "labels" THEN allowed_labels ELSE allowed_epic_resources

\* the text with leading and trailing whitespace removed is this one
TrimsTo(text, trimmed) ==
  \E i \in 0..Len(text), j \in 0..Len(text) :
    /\ i + j <= Len(text)
    /\ \A k \in 1..i : text[k] \in Whitespace
    /\ \A k \in (Len(text) - j + 1)..Len(text) : text[k] \in Whitespace
    /\ trimmed = SubSeq(text, i + 1, Len(text) - j)
    /\ trimmed # <<>> => (trimmed[1] \notin Whitespace
                           /\ trimmed[Len(trimmed)] \notin Whitespace)

\* the entry is a string with something other than whitespace in it
NonBlankString(entry) == entry.t = "str" /\ ~Blank(entry)

\* the messages about entry idx (0-based) of the field
AboutEntry(messages, field, idx) ==
  {j \in 1..Len(messages) : messages[j].key = field /\ messages[j].idx = idx}

\* C12: for labels and epic_resources present with a value, the membership
\* check reports exactly one error per offending entry and none for the others:
\* a value that is not a list gives the single 'must be a list' error; in a list,
\* an entry that is not a non-blank string gives one 'must be a non-empty string'
\* error with its index, a string whose trimmed text is not an exact,
\* case-sensitive member gives one 'not defined' error with the trimmed text and
\* the index, and a member gives none. With a and b allowed, labels [a, c] gives
\* exactly one error, for index 1 and value c.
C12_StringListErrors ==
  pc = "list_done" =>
    /\ \A field \in DOMAIN document.v :
         LET value == document.v[field]
         IN IF FailsPresence(value) THEN About(failures, field) = {}
            ELSE IF value.t # "list"
                 THEN OnlyMessage(failures, field, MustBeList(field))
            ELSE \A i \in 1..Len(value.v) :
                   LET entry == value.v[i]
                       about == AboutEntry(failures, field, i - 1)
                   IN IF ~NonBlankString(entry)
                      THEN /\ Cardinality(about) = 1
                           /\ \A j \in about : failures[j] = EntryNotString(field, i - 1)
                      ELSE IF \E t \in AllowedFor(field) : TrimsTo(entry.v, t)
                           THEN about = {}
                           ELSE /\ Cardinality(about) = 1
                                /\ \A j \in about :
                                     /\ failures[j].kind = "entry_not_defined"
                                     /\ TrimsTo(entry.v, failures[j].value.v)
    /\ \A j \in 1..Len(failures) :
         /\ failures[j].key \in DOMAIN document.v
         /\ document.v[failures[j].key].t = "list" =>
              failures[j].idx \in 0..(Len(document.v[failures[j].key].v) - 1)
    /\ (allowed_labels = {a, b} /\ document = Map([labels |-> List(<<Str(a), Str(c)>>)]))
         => failures = <<EntryNotDefined("labels", 1, c)>>

\* labels [a, c] checked against the allow-list {a, b}: one error, for c at index 1
C12_Witness ==
  /\ pc = "list_done"
  /\ allowed_labels = {a, b}
  /\ document = Map([labels |-> List(<<Str(a), Str(c)>>)])
  /\ Len(failures) = 1
  /\ failures[1].idx = 1
  /\ failures[1].value = Str(c)

\* ------------------------------------------- claims: the report of a batch

\* how many files load_yaml has been called on and returned or failed for: the
\* iterations completed, and the one an uncaught exception cut short
Reached == pos + (IF /\ pc = "exited"
                     /\ pos < Len(yaml_files)
                     /\ raised \in {"AttributeError", "UnicodeDecodeError"}
                  THEN 1 ELSE 0)

\* what the first i files of the batch add to the running total
RECURSIVE ErrorsOfPrefix(_)
ErrorsOfPrefix(i) ==
  IF i = 0 THEN 0
  ELSE ErrorsOfPrefix(i - 1)
         + (IF Parsed(waf_dir[yaml_files[i]])
            THEN Len(DocumentErrors(waf_dir[yaml_files[i]]))
            ELSE 1)

\* C13: every parsed file gets exactly one status line, chosen from its own
\* results only: [FAIL] exactly when its error list is non-empty (followed by
\* every error, then every warning), [WARN] when it has no error and at least one
\* warning, [OK] otherwise; and after any prefix of the batch the running total
\* is the sum of the error-list lengths of the parsed files so far plus one per
\* file that failed to parse.
C13_OneStatusLinePerParsedFile ==
  /\ Len(output) <= Len(yaml_files)
  /\ \A i \in 1..Reached :
       LET content == waf_dir[yaml_files[i]]
           errors == DocumentErrors(content)
           warns == validate_document(content, top_level_rules, nested_rules).warnings
       IN Parsed(content) =>
            /\ i <= Len(output)
            /\ output[i].file = yaml_files[i]
            /\ output[i].tag = "FAIL" <=> errors # <<>>
            /\ output[i].tag = "WARN" <=> (errors = <<>> /\ warns # <<>>)
            /\ output[i].tag = "OK" <=> (errors = <<>> /\ warns = <<>>)
            /\ output[i].errors = errors
            /\ output[i].warnings = warns
  /\ pc = "loop" => total_errors = ErrorsOfPrefix(pos)

\* ------------------------------------------- claims: configuration errors

\* the file is missing, is not YAML or is not UTF-8 text
Unreadable(data) == data.t \in {"missing", "yaml_error", "decode_error"}

\* the labels file is missing, malformed or defines no label
LabelsFault(data) ==
  \/ Unreadable(data)
  \/ LET raw == IF data.t = "map" THEN Get(data, "labels") ELSE data
     IN \/ raw.t # "list"
        \/ \A i \in 1..Len(raw.v) : ~NonBlankString(raw.v[i])

\* the validations file is missing, malformed, has a key whose allow-list is
\* empty or without a usable entry, or lacks a required key
ValidationsFault(data) ==
  \/ Unreadable(data)
  \/ data.t # "map"
  \/ \E k \in DOMAIN data.v :
       \/ data.v[k].t # "list"
       \/ \A i \in 1..Len(data.v[k].v) :
            FailsPresence(data.v[k].v[i]) /\ data.v[k].v[i].t # "null"
  \/ \E k \in {"impact", "active", "kql_check"} : k \notin DOMAIN data.v

\* some string of the tree, a mapping key included, is not blank
RECURSIVE HasText(_)
HasText(node) ==
  \/ NonBlankString(node)
  \/ node.t = "map" /\ DOMAIN node.v # {}
  \/ node.t = "list" /\ \E i \in 1..Len(node.v) : HasText(node.v[i])

\* the epic-resources file is missing, malformed or names no resource
ResourcesFault(data) == Unreadable(data) \/ ~HasText(data)

\* one of the four configuration files is at fault
ConfigFault ==
  \/ config.template.t = "missing"
  \/ LabelsFault(config.labels)
  \/ ValidationsFault(config.validations)
  \/ ResourcesFault(config.resources)

\* the loop has taken a document
DocumentWork ==
  pc = "loop" \/ pos > 0 \/ output # <<>> \/ document # Null \/ yaml_files # <<>>

\* C14: a configuration error is fatal and comes before any per-document work:
\* with a missing template, or a labels, validations or epic-resources file that
\* is missing, malformed or yields an empty allow-list (or validations lacking
\* impact, active or kql_check), the run ends with a non-zero status, no WAF file
\* is listed or parsed and nothing is printed; so whenever a document is
\* validated every allow-list in use is non-empty.
C14_ConfigErrorsFatalFirst ==
  /\ ConfigFault =>
       /\ ~DocumentWork
       /\ pc \in {"config", "exited"}
       /\ pc = "exited" => (exit_status # 0 /\ raised # "none")
  /\ DocumentWork =>
       /\ allowed_labels # {}
       /\ allowed_epic_resources # {}
       /\ \A k \in {"impact", "active", "kql_check"} : k \in DOMAIN validations
       /\ \A k \in DOMAIN validations : validations[k] # {}

\* a run over a folder with a valid document, ended by a labels file whose
\* entries are all blank or not strings
C14_Witness ==
  /\ pc = "exited"
  /\ config.labels.t = "list"
  /\ LabelsFault(config.labels)
  /\ raised = "ValueError"
  /\ exit_status = 1
  /\ \E n \in DOMAIN waf_dir : waf_dir[n] = DocOk
  /\ output = <<>>

\* ------------------------------------------- claims: parse_template

\* the line the loop takes next
NextLine == lines[line_no + 1]

\* the line is "- key: status" after its indentation
ListItemRule(raw_line) ==
  /\ StartsWith(Strip(raw_line), <<"-", " ">>)
  /\ STATUS_PATTERN(Strip(SubSeq(Strip(raw_line), 3, Len(Strip(raw_line))))).matched

\* the key of a "- key: status" line
ListItemKey(raw_line) ==
  STATUS_PATTERN(Strip(SubSeq(Strip(raw_line), 3, Len(Strip(raw_line))))).key

\* the parser's four locals
ParserLocals == <<top_level, nested, current_parent, current_list_parent>>

\* C15 as stated: a line at indentation 0 that does not match the key:status
\* pattern (an unindented "- name: mandatory" for one), and any indented line read
\* while no parent is active, leaves TopLevelRules, NestedRules, the current
\* parent and the current list parent unchanged.
C15_UnmatchedLinesIgnored ==
  [][ ( /\ pc = "parse"
        /\ line_no < Len(lines)
        /\ line_no' = line_no + 1
        /\ \/ Indent(NextLine) = 0 /\ ~STATUS_PATTERN(Strip(NextLine)).matched
           \/ Indent(NextLine) > 0 /\ current_parent = None )
      => UNCHANGED ParserLocals ]_vars

\* C15, amended: a line at indentation 0 that matches neither the key:status
\* pattern nor, with a parent active, the list-item form "- key: status", and any
\* indented line read while no parent is active, leaves the four locals
\* unchanged; an unindented "- key: status" line read while a parent is active is
\* filed like an indented one: the key goes under the active parent, which
\* becomes the current list parent, and TopLevelRules and the current parent stay.
C15_IgnoredUnlessListItem ==
  [][ ( /\ pc = "parse"
        /\ line_no < Len(lines)
        /\ line_no' = line_no + 1 )
      => /\ ( \/ /\ Indent(NextLine) = 0
                 /\ ~STATUS_PATTERN(Strip(NextLine)).matched
                 /\ ~(ListItemRule(NextLine) /\ current_parent # None)
              \/ Indent(NextLine) > 0 /\ current_parent = None )
            => UNCHANGED ParserLocals
         /\ ( /\ Indent(NextLine) = 0
              /\ ListItemRule(NextLine)
              /\ current_parent # None )
            => /\ UNCHANGED <<top_level, current_parent>>
               /\ current_list_parent' = current_parent
               /\ current_parent \in DOMAIN nested'
               /\ \E i \in 1..Len(nested'[current_parent]) :
                    nested'[current_parent][i].key = ListItemKey(NextLine)
               /\ \A p \in DOMAIN nested : p # current_parent => nested'[p] = nested[p] ]_vars

\* "foo: mandatory", then an unindented "- foo", which is ignored, then an
\* unindented "- name: mandatory", which is filed under foo
C15_Witness ==
  /\ line_no = 3
  /\ lines = <<foo \o <<":", " ">> \o mandatory,
               <<"-", " ">> \o foo,
               <<"-", " ">> \o name \o <<":", " ">> \o mandatory>>
  /\ top_level = <<Rule(foo, "mandatory")>>
  /\ DOMAIN nested = {foo}
  /\ nested[foo] = <<Rule(name, "mandatory")>>
  /\ current_list_parent = foo

\* the line defines a top-level key
TopLevelLine(raw_line) ==
  Strip(raw_line) # <<>> /\ Indent(raw_line) = 0 /\ STATUS_PATTERN(Strip(raw_line)).matched

\* the nested rule a line that is not a top-level line asks for, if any
NestedLine(raw_line) ==
  /\ Strip(raw_line) # <<>>
  /\ ~TopLevelLine(raw_line)
  /\ IF StartsWith(Strip(raw_line), <<"-", " ">>) THEN ListItemRule(raw_line)
     ELSE STATUS_PATTERN(Strip(raw_line)).matched
NestedRuleOf(raw_line) ==
  LET match == IF StartsWith(Strip(raw_line), <<"-", " ">>)
               THEN STATUS_PATTERN(Strip(SubSeq(Strip(raw_line), 3, Len(Strip(raw_line)))))
               ELSE STATUS_PATTERN(Strip(raw_line))
  IN Rule(match.key, match.status)

\* the key of the last top-level line before line j, or None
LastTopLevelKey(j) ==
  LET tops == {i \in 1..(j - 1) : TopLevelLine(lines[i])}
  IN IF tops = {} THEN None
     ELSE STATUS_PATTERN(Strip(lines[CHOOSE i \in tops : \A k \in tops : i >= k])).key

\* C16: after any sequence of template lines, every parent key of NestedRules is
\* a key of TopLevelRules; a nested key is filed under a parent exactly when some
\* line read so far asks for it and the most recent top-level key line before
\* that line is the parent's; and the current list parent is unset or equal to
\* the current parent.
C16_NestedUnderLatestTopLevel ==
  /\ \A parent \in DOMAIN nested : \E i \in 1..Len(top_level) : top_level[i].key = parent
  /\ \A parent \in DOMAIN nested : \A i \in 1..Len(nested[parent]) :
       \E j \in 1..line_no :
         /\ NestedLine(lines[j])
         /\ NestedRuleOf(lines[j]) = nested[parent][i]
         /\ LastTopLevelKey(j) = parent
  /\ \A j \in 1..line_no :
       (NestedLine(lines[j]) /\ LastTopLevelKey(j) # None) =>
         /\ LastTopLevelKey(j) \in DOMAIN nested
         /\ \E i \in 1..Len(nested[LastTopLevelKey(j)]) :
              nested[LastTopLevelKey(j)][i].key = NestedRuleOf(lines[j]).key
  /\ current_list_parent = None \/ current_list_parent = current_parent
  /\ current_parent = LastTopLevelKey(line_no + 1)
  /\ pc = "parsed" =>
       /\ nested_rules = nested
       /\ \A parent \in DOMAIN nested_rules :
            \E i \in 1..Len(top_level_rules) : top_level_rules[i].key = parent

\* "foo: mandatory", then the top-level key bar_2, then a nested key: it is filed
\* under bar_2, the most recent top-level key, and nothing under foo
C16_Witness ==
  /\ pc = "parsed"
  /\ Len(lines) = 3
  /\ top_level_rules = <<Rule(foo, "mandatory"), Rule(bar_2, "optional")>>
  /\ DOMAIN nested_rules = {bar_2}
  /\ nested_rules[bar_2] = <<Rule(owner, "optional")>>

=============================================================================
